---- MODULE Spec2Model ----
(***************************************************************************)
(* A model of www/src/Lib/profile.py: the Stats store (construction,       *)
(* JSON serialisation, merge, queries, sort), and the CallGrind treemap    *)
(* (MethodElement construction and zoom navigation).                       *)
(*                                                                         *)
(* Python values are modelled as follows.                                  *)
(*   - a dict is a record [keys, val]: keys is the sequence of its keys in *)
(*     insertion order, val the mapping;                                   *)
(*   - a call chain "<line>,<module>:<f1>-><f2>" is the pair               *)
(*     <<"<line>,<module>", <<f1, f2>>>>;                                  *)
(*   - an operation that can raise returns [obj, err] or [val, err]: err   *)
(*     is "none" or the name of the exception, obj the object as the       *)
(*     statements executed before the raise left it.                       *)
(***************************************************************************)
EXTENDS Integers, Sequences, FiniteSets, TLC

VARIABLES
    self,      \* the Stats object the session works on
    storage,   \* browser local storage: key -> serialised Stats
    cg,        \* the CallGrind controller
    elems,     \* the MethodElement objects that exist, by stack hash
    call,      \* the last operation called and its arguments
    err,       \* the exception the last operation raised, or "none"
    nops       \* operations performed so far

vars == <<self, storage, cg, elems, call, err, nops>>

\* ------------------------------------------------------------------ bounds

MaxVal == 1     \* largest sample scale of a recorded snapshot
MaxOps == 2     \* operations per session (an add costs one per source)

\* ------------------------------------------------------------ basic values

None == "<None>"

FuncNames == <<"f", "g">>     \* in str order
Funcs == {FuncNames[i] : i \in DOMAIN FuncNames}

\* str.__lt__ on function identities
StrLess(a, b) ==
    LET ia == CHOOSE i \in DOMAIN FuncNames : FuncNames[i] = a
        ib == CHOOSE i \in DOMAIN FuncNames : FuncNames[i] = b
    IN  ia < ib

TopChain == <<"1,m", <<>>>>           \* "1,m:"
NestedChain == <<"1,m", <<"f">>>>     \* "1,m:f"
Chains == {TopChain, NestedChain}
NoneChain == <<None, <<>>>>

is_toplevel(call_chain) == call_chain[2] = <<>>

Range(s) == {s[i] : i \in DOMAIN s}

RECURSIVE SumSeq(_)
SumSeq(s) == IF s = <<>> THEN 0 ELSE Head(s) + SumSeq(Tail(s))

\* ------------------------------------------------------------------- dicts

EmptyDict == [keys |-> <<>>, val |-> [k \in {} |-> 0]]

Has(d, k) == k \in Range(d.keys)

\* d[k] = v
Put(d, k, v) ==
    [keys |-> IF Has(d, k) THEN d.keys ELSE Append(d.keys, k),
     val  |-> [x \in Range(d.keys) \cup {k} |-> IF x = k THEN v ELSE d.val[x]]]

\* {k: F(k) for k in keys}
DictOf(keys, F(_)) == [keys |-> keys, val |-> [k \in Range(keys) |-> F(k)]]

Values(d) == [i \in DOMAIN d.keys |-> d.val[d.keys[i]]]

ZeroEdge == [cumulated |-> 0, total |-> 0, count |-> 0, count_norec |-> 0]

EdgePlus(a, b) ==
    [cumulated   |-> a.cumulated + b.cumulated,
     total       |-> a.total + b.total,
     count       |-> a.count + b.count,
     count_norec |-> a.count_norec + b.count_norec]

\* ---------------------------------------------------- recorded snapshots

\* The call sites a recorded run can hold: a chain through f exists only
\* when f is called from the top level, and g is called from one place.
EdgeSets ==
    {E \in SUBSET (Funcs \X Chains) :
        /\ (\E x \in E : x[2] = NestedChain) => <<"f", TopChain>> \in E
        /\ ~({<<"g", TopChain>>, <<"g", NestedChain>>} \subseteq E)}

FuncIndex(f) == CHOOSE i \in DOMAIN FuncNames : FuncNames[i] = f

\* The sample recorded for function f called from chain c at scale k.
SampleEdge(f, c, k) ==
    [cumulated   |-> k + FuncIndex(f) + (IF is_toplevel(c) THEN 1 ELSE 0),
     total       |-> k + FuncIndex(f) - 1,
     count       |-> (MaxVal + 1 - k) + (IF f \in Range(c[2]) THEN 1 ELSE 0),
     count_norec |-> MaxVal + 1 - k]

ChainSeq == <<TopChain, NestedChain>>

\* keys of S in the order of seq (dir() lists names in sorted order)
RECURSIVE Filter(_, _)
Filter(seq, S) ==
    IF seq = <<>> THEN <<>>
    ELSE IF Head(seq) \in S THEN <<Head(seq)>> \o Filter(Tail(seq), S)
    ELSE Filter(Tail(seq), S)

SnapFuncs(E) == Filter(FuncNames, {x[1] : x \in E})
SnapChains(E, f) == Filter(ChainSeq, {x[2] : x \in {y \in E : y[1] = f}})

SnapCallers(E, k) ==
    DictOf(SnapFuncs(E),
           LAMBDA f : DictOf(SnapChains(E, f), LAMBDA c : SampleEdge(f, c, k)))

SnapSum(E, k, f, fld) ==
    LET cs == SnapChains(E, f)
    IN  SumSeq([i \in DOMAIN cs |-> SampleEdge(f, cs[i], k)[fld]])

SnapDuration(E, k) ==
    LET fs == SnapFuncs(E)
    IN  SumSeq([i \in DOMAIN fs |-> SnapSum(E, k, fs[i], "total")]) + Cardinality(E)

\* The number of runs a snapshot is averaged over: the snapshots that
\* profile g at the top level were recorded over one run more.
SnapRuns(E, k) == IF <<"g", TopChain>> \in E THEN k + 1 ELSE k

\* The serialised form (the schema of __json__) of the run with call sites E
\* recorded at scale k.
Snapshot(E, k) ==
    [nruns                     |-> SnapRuns(E, k),
     line_counts               |-> IF E = {} THEN EmptyDict
                                   ELSE DictOf(<<"1">>, LAMBDA l : k),
     duration                  |-> SnapDuration(E, k),
     function_counts           |-> DictOf(SnapFuncs(E), LAMBDA f : SnapSum(E, k, f, "count")),
     function_counts_nonrec    |-> DictOf(SnapFuncs(E), LAMBDA f : SnapSum(E, k, f, "count_norec")),
     function_cumulated_totals |-> DictOf(SnapFuncs(E), LAMBDA f : SnapSum(E, k, f, "cumulated")),
     function_totals           |-> DictOf(SnapFuncs(E), LAMBDA f : SnapSum(E, k, f, "total")),
     callers                   |-> SnapCallers(E, k)]

Texts ==
    {Snapshot(E, k) : E \in EdgeSets \ {{}}, k \in 1..MaxVal} \cup {Snapshot({}, 1)}

\* The same run as the instrumentation's data object (_profile.data): an edge
\* is the list [cumulated, total, count, count_norec].
RawData(E, k) ==
    LET t == Snapshot(E, k)
    IN  [profile_duration  |-> t.duration,
         call_times        |-> t.function_cumulated_totals,
         call_times_proper |-> t.function_totals,
         call_counts       |-> t.function_counts,
         call_counts_norec |-> t.function_counts_nonrec,
         line_counts       |-> t.line_counts,
         callers           |->
            DictOf(t.callers.keys, LAMBDA f :
                DictOf(t.callers.val[f].keys, LAMBDA c :
                    LET e == t.callers.val[f].val[c]
                    IN  <<e.cumulated, e.total, e.count, e.count_norec>>))]

\* a data object without profile_duration: the duration is _profile.elapsed()
NoDuration(data) == [k \in DOMAIN data \ {"profile_duration"} |-> data[k]]

RawPool ==
    {RawData(E, 1) : E \in {{}, {<<"f", TopChain>>},
                            {<<"f", TopChain>>, <<"g", NestedChain>>}}}
        \cup {NoDuration(RawData({}, 1))}

\* ------------------------------------------------------------------- Stats

NoSk == [isNone |-> TRUE, keys |-> <<>>]
Sk(keys) == [isNone |-> FALSE, keys |-> keys]

Ok(o) == [obj |-> o, err |-> "none"]
Raise(o, e) == [obj |-> o, err |-> e]
Ret(v) == [val |-> v, err |-> "none"]
RaiseVal(e) == [val |-> None, err |-> e]

\* __init__, lines 124-127: the attributes every new Stats starts with. The
\* data attributes hold placeholders until from_json or lines 132-150 set them.
NewObject ==
    [_ordering                 |-> "standard name",
     _reverse_order            |-> FALSE,
     _sk                       |-> NoSk,
     _top_level_call_locations |-> {},
     _data                     |-> None,
     nruns                     |-> 0,
     line_counts               |-> EmptyDict,
     duration                  |-> 0,
     function_counts           |-> EmptyDict,
     function_counts_nonrec    |-> EmptyDict,
     function_cumulated_totals |-> EmptyDict,
     function_totals           |-> EmptyDict,
     callers                   |-> EmptyDict]

\* _update_top_level_call_locations over a sequence of chain-keyed dicts
TopLevelOf(caller_data) ==
    {c \in UNION {Range(caller_data[i].keys) : i \in DOMAIN caller_data} :
        is_toplevel(c)}

_update_top_level_call_locations(obj, caller_data) ==
    [obj EXCEPT !._top_level_call_locations = @ \cup TopLevelOf(caller_data)]

SchemaKeys ==
    <<"nruns", "line_counts", "duration", "function_counts",
      "function_counts_nonrec", "function_cumulated_totals",
      "function_totals", "callers">>

\* __json__ with 'function_totals' filled from function_cumulated_totals
json_copied_totals(obj) ==
    [k \in Range(SchemaKeys) |->
        IF k = "function_totals" THEN obj.function_cumulated_totals ELSE obj[k]]

__json__(obj) == [k \in Range(SchemaKeys) |-> obj[k]]

\* from_json: the keys are read and assigned one after the other, so a
\* missing key raises KeyError after the keys before it were installed.
from_json(obj, text) ==
    LET s0 == [obj EXCEPT !._data = None]
        missing == {i \in DOMAIN SchemaKeys : SchemaKeys[i] \notin DOMAIN text}
        n == IF missing = {} THEN Len(SchemaKeys)
             ELSE (CHOOSE i \in missing : \A j \in missing : i <= j) - 1
        loaded == {SchemaKeys[i] : i \in 1..n}
        s1 == [fld \in DOMAIN s0 |-> IF fld \in loaded THEN text[fld] ELSE s0[fld]]
    IN  IF missing # {} THEN Raise(s1, "KeyError")
        ELSE Ok(_update_top_level_call_locations(s1, Values(s1.callers)))

\* Stats(data), data a string
StatsFromText(text) == from_json(NewObject, text)

\* Stats(data, nruns), data the instrumentation's object. Line 151 hands
\* callers.items() to _update_top_level_call_locations: its elements are
\* (function, dict) tuples, and d.keys() raises on the first of them.
StatsFromData(data, nruns, elapsed) ==
    LET o == [NewObject EXCEPT
                !._data = "data",
                !.nruns = nruns,
                !.line_counts = data.line_counts,
                !.duration = IF "profile_duration" \in DOMAIN data
                             THEN data.profile_duration ELSE elapsed,
                !.function_totals = data.call_times_proper,
                !.function_cumulated_totals = data.call_times,
                !.function_counts = data.call_counts,
                !.function_counts_nonrec =
                    DictOf(data.call_counts.keys, LAMBDA k : data.call_counts_norec.val[k]),
                !.callers =
                    DictOf(data.callers.keys, LAMBDA f :
                        DictOf(data.callers.val[f].keys, LAMBDA c :
                            LET e == data.callers.val[f].val[c]
                            IN  [cumulated |-> e[1], total |-> e[2],
                                 count |-> e[3], count_norec |-> e[4]]))]
    IN  IF o.callers.keys # <<>> THEN Raise(o, "AttributeError") ELSE Ok(o)

\* ---- sort

SortKeys == {"standard name", "ncalls", "tottime", "percall", "cumtime", "var percall"}

\* An item is <<key, numerator, denominator>>: its sort value is the quotient.
ValLess(x, y) == x[2] * y[3] < y[2] * x[3]

\* x goes before y
Precedes(x, y, reverse) == IF reverse THEN ValLess(y, x) ELSE ValLess(x, y)

Insert(sorted, x, reverse) ==
    LET before == {i \in DOMAIN sorted : Precedes(x, sorted[i], reverse)}
        p == IF before = {} THEN Len(sorted) + 1
             ELSE CHOOSE i \in before : \A j \in before : i <= j
    IN  SubSeq(sorted, 1, p - 1) \o <<x>> \o SubSeq(sorted, p, Len(sorted))

\* sorted(items, key=lambda x: x[1], reverse=reverse): stable
RECURSIVE PySortedFrom(_, _, _, _)
PySortedFrom(items, i, reverse, acc) ==
    IF i > Len(items) THEN acc
    ELSE PySortedFrom(items, i + 1, reverse, Insert(acc, items[i], reverse))

PySorted(items, reverse) ==
    LET r == PySortedFrom(items, 1, reverse, <<>>)
    IN  [i \in DOMAIN r |-> r[i][1]]

Items(d) == [i \in DOMAIN d.keys |-> <<d.keys[i], d.val[d.keys[i]], 1>>]

Ratios(num, den) ==
    [i \in DOMAIN den.keys |-> <<den.keys[i], num.val[den.keys[i]], den.val[den.keys[i]]>>]

HasZero(d) == \E k \in Range(d.keys) : d.val[k] = 0

\* _sorted_keys passing reverse=self._reverse_order, without the not
sorted_keys_unreversed(obj) ==
    LET o == obj._ordering
        rev == obj._reverse_order
    IN  CASE o = "standard name" ->
                Ret(PySorted([i \in DOMAIN obj.function_totals.keys |->
                                <<obj.function_totals.keys[i],
                                  FuncIndex(obj.function_totals.keys[i]), 1>>], FALSE))
          [] o = "ncalls"  -> Ret(PySorted(Items(obj.function_counts), rev))
          [] o = "tottime" -> Ret(PySorted(Items(obj.function_totals), rev))
          [] o = "percall" ->
                IF HasZero(obj.function_counts) THEN RaiseVal("ZeroDivisionError")
                ELSE Ret(PySorted(Ratios(obj.function_totals, obj.function_counts), rev))
          [] o = "cumtime" -> Ret(PySorted(Items(obj.function_cumulated_totals), rev))
          [] o = "var percall" ->
                IF HasZero(obj.function_counts_nonrec) THEN RaiseVal("ZeroDivisionError")
                ELSE Ret(PySorted(Ratios(obj.function_cumulated_totals,
                                         obj.function_counts_nonrec), rev))
          [] OTHER -> RaiseVal("UnboundLocalError")

_sorted_keys(obj) ==
    LET o == obj._ordering
        rev == ~obj._reverse_order
    IN  CASE o = "standard name" ->
                Ret(PySorted([i \in DOMAIN obj.function_totals.keys |->
                                <<obj.function_totals.keys[i],
                                  FuncIndex(obj.function_totals.keys[i]), 1>>], FALSE))
          [] o = "ncalls"  -> Ret(PySorted(Items(obj.function_counts), rev))
          [] o = "tottime" -> Ret(PySorted(Items(obj.function_totals), rev))
          [] o = "percall" ->
                IF HasZero(obj.function_counts) THEN RaiseVal("ZeroDivisionError")
                ELSE Ret(PySorted(Ratios(obj.function_totals, obj.function_counts), rev))
          [] o = "cumtime" -> Ret(PySorted(Items(obj.function_cumulated_totals), rev))
          [] o = "var percall" ->
                IF HasZero(obj.function_counts_nonrec) THEN RaiseVal("ZeroDivisionError")
                ELSE Ret(PySorted(Ratios(obj.function_cumulated_totals,
                                         obj.function_counts_nonrec), rev))
          [] OTHER -> RaiseVal("UnboundLocalError")

sort(obj, key) ==
    LET s1 == [obj EXCEPT !._ordering = key]
        r == _sorted_keys(s1)
    IN  IF r.err # "none" THEN Raise(s1, r.err)
        ELSE Ok([s1 EXCEPT !._sk = Sk(r.val)])

\* ---- merge

ValueOrZero(d, f) == IF Has(d, f) THEN d.val[f] ELSE 0

\* lines 201-210 building each map anew over the source's functions, which
\* drops the functions only the destination has
AddFunctions_over_source(obj, stat, i) ==
    LET ks == stat.function_totals.keys
    IN  [obj EXCEPT
           !.function_totals =
               DictOf(ks, LAMBDA f : ValueOrZero(@, f) + stat.function_totals.val[f]),
           !.function_cumulated_totals =
               DictOf(ks, LAMBDA f : ValueOrZero(@, f) + stat.function_cumulated_totals.val[f]),
           !.function_counts =
               DictOf(ks, LAMBDA f : ValueOrZero(@, f) + stat.function_counts.val[f]),
           !.function_counts_nonrec =
               DictOf(ks, LAMBDA f : ValueOrZero(@, f) + stat.function_counts_nonrec.val[f])]

\* _add_stat, lines 201-210
RECURSIVE AddFunctions(_, _, _)
AddFunctions(obj, stat, i) ==
    IF i > Len(stat.function_totals.keys) THEN obj
    ELSE
        LET f == stat.function_totals.keys[i]
            o1 == IF ~Has(obj.function_counts, f)
                  THEN [obj EXCEPT
                          !.function_totals = Put(@, f, 0),
                          !.function_cumulated_totals = Put(@, f, 0),
                          !.function_counts = Put(@, f, 0),
                          !.function_counts_nonrec = Put(@, f, 0)]
                  ELSE obj
            o2 == [o1 EXCEPT
                     !.function_totals = Put(@, f, @.val[f] + stat.function_totals.val[f]),
                     !.function_cumulated_totals =
                         Put(@, f, @.val[f] + stat.function_cumulated_totals.val[f]),
                     !.function_counts = Put(@, f, @.val[f] + stat.function_counts.val[f]),
                     !.function_counts_nonrec =
                         Put(@, f, @.val[f] + stat.function_counts_nonrec.val[f])]
        IN  AddFunctions(o2, stat, i + 1)

\* lines 214-217 on the dict sc
RECURSIVE MergeEdges(_, _, _)
MergeEdges(sc, callers, j) ==
    IF j > Len(callers.keys) THEN sc
    ELSE
        LET caller == callers.keys[j]
            sc1 == IF ~Has(sc, caller) THEN Put(sc, caller, ZeroEdge) ELSE sc
        IN  MergeEdges(Put(sc1, caller, EdgePlus(sc1.val[caller], callers.val[caller])),
                       callers, j + 1)

\* _add_stat, lines 211-217. The local sc is bound at line 213 only, when f
\* is new to self.callers: scf is the function whose dict sc then is, None
\* while sc is unbound. For an f self.callers already holds, sc is whatever an
\* earlier iteration left, and reading it unbound raises.
RECURSIVE AddCallers(_, _, _, _)
AddCallers(obj, stat, i, scf) ==
    IF i > Len(stat.callers.keys) THEN Ok(obj)
    ELSE
        LET f == stat.callers.keys[i]
            callers == stat.callers.val[f]
            isNew == ~Has(obj.callers, f)
            o1 == IF isNew THEN [obj EXCEPT !.callers = Put(@, f, EmptyDict)] ELSE obj
            scf1 == IF isNew THEN f ELSE scf
        IN  IF callers.keys = <<>> THEN AddCallers(o1, stat, i + 1, scf1)
            ELSE IF scf1 = None THEN Raise(o1, "UnboundLocalError")
            ELSE AddCallers(
                    [o1 EXCEPT !.callers =
                        Put(@, scf1, MergeEdges(@.val[scf1], callers, 1))],
                    stat, i + 1, scf1)

_add_stat(obj, stat) ==
    LET a == AddFunctions(obj, stat, 1)
        b == AddCallers(a, stat, 1, None)
        c == IF b.obj._sk.isNone THEN Ok(b.obj) ELSE sort(b.obj, "standard name")
    IN  IF b.err # "none" THEN b
        ELSE IF c.err # "none" THEN c
        ELSE Ok(_update_top_level_call_locations(c.obj, Values(stat.callers)))

\* An argument of add is a Stats object (kind "obj"), a local storage key
\* (kind "key"), or serialised text (kind "text"). A string that is no key of
\* the storage is parsed as JSON (line 197), and a key's name is not JSON.

RECURSIVE add(_, _, _, _)
add(obj, stats, store, i) ==
    IF i > Len(stats) THEN Ok(obj)
    ELSE
        LET s == stats[i]
            st == IF s.kind = "obj" THEN Ok(s.val)
                  ELSE IF s.kind = "key" THEN
                      IF store[s.key].present THEN StatsFromText(store[s.key].text)
                      ELSE Raise(NewObject, "ValueError")
                  ELSE StatsFromText(s.val)
            r == _add_stat(obj, st.obj)
        IN  IF st.err # "none" THEN Raise(obj, st.err)
            ELSE IF r.err # "none" THEN r
            ELSE add(r.obj, stats, store, i + 1)

\* ---- queries

_update_with_data(src_data, updates) ==
    [key \in DOMAIN src_data |->
        IF key \in DOMAIN updates THEN src_data[key] + updates[key] ELSE src_data[key]]

method_profile_by_callchain(obj, method_name) ==
    IF ~Has(obj.callers, method_name) THEN RaiseVal("KeyError")
    ELSE LET c_data == obj.callers.val[method_name]
         IN  Ret(DictOf(c_data.keys,
                        LAMBDA h : _update_with_data(ZeroEdge, c_data.val[h])))

profiled_methods(obj) == obj.function_totals.keys

\* sum(d) adds the keys of d to 0: function identities are strings
PySum(d) == IF d.keys = <<>> THEN Ret(0) ELSE RaiseVal("TypeError")

ZeroProfile == [total |-> 0, cumulated |-> 0, counts |-> 0, counts_nonrec |-> 0]

method_profile(obj, method_name, restrict_to_callchain) ==
    IF method_name = None THEN
        LET t == PySum(obj.function_totals)
            c == PySum(obj.function_counts)
            n == PySum(obj.function_counts_nonrec)
        IN  IF t.err # "none" THEN t
            ELSE IF c.err # "none" THEN c
            ELSE IF n.err # "none" THEN n
            ELSE Ret([total |-> obj.duration - t.val, counts |-> c.val,
                      cumulated |-> obj.duration, counts_nonrec |-> n.val])
    ELSE IF restrict_to_callchain = NoneChain THEN
        IF ~Has(obj.function_totals, method_name) THEN RaiseVal("KeyError")
        ELSE Ret([total         |-> obj.function_totals.val[method_name],
                  cumulated     |-> obj.function_cumulated_totals.val[method_name],
                  counts        |-> obj.function_counts.val[method_name],
                  counts_nonrec |-> obj.function_counts_nonrec.val[method_name]])
    ELSE
        LET profile_by_callchain == method_profile_by_callchain(obj, method_name)
        IN  IF profile_by_callchain.err # "none" THEN profile_by_callchain
            ELSE IF Has(profile_by_callchain.val, restrict_to_callchain)
                 THEN Ret(_update_with_data(
                            ZeroProfile,
                            profile_by_callchain.val.val[restrict_to_callchain]))
            ELSE Ret(ZeroProfile)

\* Stats has no attribute _top_level_callers (line 274): the set lives in
\* _top_level_call_locations.
sub_calls(obj, call_chain) ==
    LET pm == profiled_methods(obj)
    IN  IF pm = <<>> THEN Ret({})
        ELSE IF call_chain = NoneChain THEN
            IF ~Has(obj.callers, pm[1]) THEN RaiseVal("KeyError")
            ELSE RaiseVal("AttributeError")
        ELSE IF \E i \in DOMAIN pm : ~Has(obj.callers, pm[i]) THEN RaiseVal("KeyError")
        ELSE Ret({pm[i] : i \in {j \in DOMAIN pm : Has(obj.callers.val[pm[j]], call_chain)}})

\* method_profile takes no keyword restrict_to_calls_from (line 332)
sub_calls_profile(obj, call_chain) ==
    LET sc == sub_calls(obj, call_chain)
    IN  IF sc.err # "none" THEN sc
        ELSE IF sc.val = {} THEN Ret(EmptyDict)
        ELSE RaiseVal("TypeError")

\* ---- report

\* "{:.Nf}".format(num/den), as the set of the numbers (in units of the last
\* printed digit) the platform's float formatting can print: the nearest
\* one, either neighbour when the quotient lies half way between two.
Format(num, den) ==
    {n \in {num \div den, (num \div den) + 1} :
        /\ 2 * (num - n * den) <= den
        /\ 2 * (n * den - num) <= den}

\* One row of the table (lines 380-387). The time columns are printed in
\* seconds to three decimals, so a time cell is the quantity in ms rounded to
\* a whole number; percall and varpercall start from tottime and cumtime,
\* which are divided by nruns already, and divide by nruns again.
ReportRow(obj, func) ==
    LET count  == obj.function_counts.val[func]
        nonrec == obj.function_counts_nonrec.val[func]
        total  == obj.function_totals.val[func]
        cumul  == obj.function_cumulated_totals.val[func]
        nruns  == obj.nruns
    IN  [func       |-> func,
         ncalls     |-> Format(count, nruns),
         recursive  |-> count > nonrec,
         nonrec     |-> IF count > nonrec THEN Format(nonrec, nruns) ELSE {},
         tottime    |-> Format(total, nruns),
         percall    |-> Format(total, nruns * count * nruns),
         cumtime    |-> Format(cumul, nruns),
         varpercall |-> Format(cumul, nruns * nonrec * nruns)]

\* the exception a row raises, "none" when it is printed
RowError(obj, func) ==
    IF \E d \in {obj.function_counts, obj.function_counts_nonrec,
                 obj.function_totals, obj.function_cumulated_totals} : ~Has(d, func)
    THEN "KeyError"
    ELSE IF obj.nruns = 0 \/ obj.function_counts.val[func] = 0
            \/ obj.function_counts_nonrec.val[func] = 0
    THEN "ZeroDivisionError"
    ELSE "none"

\* the table of a store that has a cached order: the first exception a row
\* raises, or the summary, the header and one row per function of the order
Table(o) ==
    LET bad == {i \in DOMAIN o._sk.keys : RowError(o, o._sk.keys[i]) # "none"}
    IN  IF bad # {} THEN
            [obj |-> o, val |-> None,
             err |-> RowError(o, o._sk.keys[CHOOSE i \in bad : \A j \in bad : i <= j])]
        ELSE [obj |-> o,
              val |-> [nruns    |-> o.nruns,
                       seconds  |-> Format(o.duration, 1),
                       ordering |-> o._ordering,
                       rows     |-> [i \in DOMAIN o._sk.keys |->
                                        ReportRow(o, o._sk.keys[i])]],
              err |-> "none"]

\* __str__: sorts by the default key when no order is cached (lines 377-378),
\* then prints the table.
__str__(obj) ==
    IF ~obj._sk.isNone THEN Table(obj)
    ELSE IF sort(obj, "standard name").err # "none"
    THEN [obj |-> sort(obj, "standard name").obj, val |-> None,
          err |-> sort(obj, "standard name").err]
    ELSE Table(sort(obj, "standard name").obj)

\* ----------------------------------------------------------- MethodElement

\* A number of the layout is the quotient <<numerator, denominator>>;
\* float('inf') is <<1, 0>>.
Rat(n) == <<n, 1>>
RatIsInf(a) == a[2] = 0
RatAdd(a, b) ==
    IF RatIsInf(a) THEN a ELSE IF RatIsInf(b) THEN b
    ELSE <<a[1] * b[2] + b[1] * a[2], a[2] * b[2]>>
RatSub(a, b) == RatAdd(a, <<-b[1], b[2]>>)
RatDiv(a, b) == IF RatIsInf(a) THEN a ELSE <<a[1] * b[2], a[2] * b[1]>>
RatGreater(a, b) ==
    IF RatIsInf(a) \/ RatIsInf(b) THEN RatIsInf(a) /\ a[1] > 0 /\ ~RatIsInf(b)
    ELSE a[1] * b[2] > b[1] * a[2]

\* _relativize: data[key] / float(baseline[key]), or inf on a zero baseline
_relativize(data, baseline) ==
    [key \in DOMAIN data |->
        IF baseline[key] = 0 THEN <<1, 0>> ELSE <<data[key], baseline[key]>>]

\* Lines 402-413: the class attribute rect is the property built at line 402,
\* which has a getter only. @rect.setter at line 406 builds a second property
\* and binds it to the name set_rect, so an assignment to .rect finds no
\* setter and raises AttributeError.
RectHasSetter == FALSE

NoRect == <<>>
FullRect == <<Rat(0), Rat(0), Rat(100), Rat(100)>>

\* add_child, lines 431-448, on the node and the child as records
add_child(node, child) ==
    LET n1 == [node EXCEPT !._children = Put(@, child._name, child._stack_hash)]
        ch_relative_data == _relativize(child._profile_data, node._profile_data)
        fr == node._free_rect
        wide == RatGreater(fr[3], fr[4])
        ch_height == IF wide THEN fr[4] ELSE RatDiv(ch_relative_data.cumulated, fr[3])
        ch_width  == IF wide THEN RatDiv(ch_relative_data.cumulated, fr[4]) ELSE fr[3]
        fr_top  == IF wide THEN fr[1] ELSE RatAdd(fr[1], ch_height)
        fr_left == IF wide THEN RatAdd(fr[2], ch_width) ELSE fr[2]
    IN  IF ~RectHasSetter
        THEN [node |-> n1, child |-> child, err |-> "AttributeError"]
        ELSE [node  |-> [n1 EXCEPT !._free_rect = <<fr_top, fr_left, ch_width, ch_height>>],
              child |-> [child EXCEPT !.rect = <<fr[1], fr[2], ch_width, ch_height>>],
              err   |-> "none"]

StackHash(method_name, parent) ==
    IF parent = NoneChain THEN <<"", <<method_name>>>>
    ELSE <<parent[1], Append(parent[2], method_name)>>

\* MethodElement.__init__, lines 415-429. The result is the set of elements
\* that exist afterwards: a constructor that raises leaves no object behind.
\* sub_calls_profile returns the empty dict or raises, so the loop of lines
\* 427-429 has nothing to iterate over; were there a child, line 428 would
\* look MethodElement up on CallGrind, which has no such attribute.
MethodElementInit(method_name, method_profile_data, stats, parent, es) ==
    LET node == [_name         |-> method_name,
                 _profile_data |-> method_profile_data,
                 _children     |-> EmptyDict,
                 _parent       |-> parent,
                 _free_rect    |-> FullRect,
                 _stack_hash   |-> StackHash(method_name, parent),
                 rect          |-> IF parent = NoneChain THEN FullRect ELSE NoRect]
        subs == sub_calls_profile(stats, node._stack_hash)
    IN  IF parent = NoneChain /\ ~RectHasSetter THEN [elems |-> es, err |-> "AttributeError"]
        ELSE IF subs.err # "none" THEN [elems |-> es, err |-> subs.err]
        ELSE IF subs.val.keys # <<>> THEN [elems |-> es, err |-> "AttributeError"]
        ELSE [elems |-> es \cup {node}, err |-> "none"]

\* --------------------------------------------------------------- CallGrind

\* CallGrind.__init__, lines 452-455; mounted: the children of _element
NewCallGrind == [_root |-> NoneChain, _zoomed_element |-> NoneChain, mounted |-> {}]

Element(es, hash) == CHOOSE e \in es : e._stack_hash = hash

\* load_data, lines 460-463. Line 461 first evaluates stats.caller_data(None):
\* class Stats (lines 91-398) has no caller_data, so the call raises before a
\* MethodElement is built, and lines 462-463 are never reached.
load_data(c, stats, es) == [cg |-> c, elems |-> es, err |-> "AttributeError"]

\* zoom_out, lines 465-469. Line 466 reads _zoomed_element.parent: None has no
\* such attribute, and a MethodElement keeps its parent in _parent, so the
\* read raises whatever the zoomed element is.
zoom_out(c, es) == [cg |-> c, err |-> "AttributeError"]

\* zoom_in, lines 471-476
zoom_in(c, func_name, es) ==
    IF c._zoomed_element = NoneChain THEN [cg |-> c, err |-> "AttributeError"]
    ELSE
        LET z == Element(es, c._zoomed_element)
        IN  IF ~Has(z._children, func_name) THEN [cg |-> c, err |-> "none"]
            ELSE [cg  |-> [c EXCEPT
                             !._zoomed_element = z._children.val[func_name],
                             !.mounted = (@ \ {c._zoomed_element})
                                            \cup {z._children.val[func_name]}],
                  err |-> "none"]

\* ----------------------------------------------------------- the session

StorageKeys == {"run1"}

Called(op, srcs, key) == [op |-> op, srcs |-> srcs, key |-> key]

Init ==
    /\ self \in {StatsFromText(t).obj : t \in Texts}
    /\ storage = [k \in StorageKeys |-> [present |-> FALSE, text |-> Snapshot({}, 1)]]
    /\ cg = NewCallGrind
    /\ elems = {}
    /\ call = Called("Stats", <<>>, "")
    /\ err = "none"
    /\ nops = 0

\* data = Stats(_profile.data, nruns): the name is rebound only when the
\* constructor returns (create_stats, runcall; lines 507-509, 572-579)
NewStats ==
    /\ nops < MaxOps
    /\ \E data \in RawPool :
        \E elapsed \in IF "profile_duration" \in DOMAIN data THEN {0} ELSE {0, 1} :
            LET r == StatsFromData(data, 1, elapsed)
            IN  /\ self' = IF r.err = "none" THEN r.obj ELSE self
                /\ err' = r.err
    /\ call' = Called("Stats(data)", <<>>, "")
    /\ nops' = nops + 1
    /\ UNCHANGED <<storage, cg, elems>>

\* data = Stats(data.__json__())
Reload ==
    /\ nops < MaxOps
    /\ LET r == StatsFromText(__json__(self))
       IN  /\ self' = IF r.err = "none" THEN r.obj ELSE self
           /\ err' = r.err
    /\ call' = Called("Stats(json)", <<>>, "")
    /\ nops' = nops + 1
    /\ UNCHANGED <<storage, cg, elems>>

\* An argument of add: a Stats object (val), serialised text (val), or a
\* local storage key (key).
NoText == Snapshot({}, 1)

\* the texts handed to add as string literals
LiteralTexts == {NoText, Snapshot({<<"f", TopChain>>}, 1)}

AddArgs ==
    {[kind |-> "obj", val |-> StatsFromText(t).obj, key |-> ""] : t \in Texts}
        \cup {[kind |-> "text", val |-> t, key |-> ""] : t \in LiteralTexts}
        \cup {[kind |-> "key", val |-> NoText, key |-> k] : k \in StorageKeys}

\* the serialised form of the Stats an argument of add stands for
ArgText(a) ==
    IF a.kind = "obj" THEN __json__(a.val)
    ELSE IF a.kind = "key" THEN storage[a.key].text
    ELSE a.val

\* a key that local storage does not hold names no Stats
ArgValid(a) == a.kind = "key" => storage[a.key].present

Add ==
    \E n \in 1..2 :
        /\ nops + n <= MaxOps
        /\ \E stats \in [1..n -> AddArgs] :
            LET r == add(self, stats, storage, 1)
            IN  /\ self' = r.obj
                /\ err' = r.err
                /\ call' = Called("add", [i \in 1..n |-> ArgText(stats[i])],
                                  IF \E i \in 1..n : ~ArgValid(stats[i])
                                  THEN "invalid" ELSE "")
        /\ nops' = nops + n
        /\ UNCHANGED <<storage, cg, elems>>

Sort ==
    /\ nops < MaxOps
    /\ \E key \in SortKeys :
        LET r == sort(self, key)
        IN  /\ self' = r.obj
            /\ err' = r.err
            /\ call' = Called("sort", <<>>, key)
    /\ nops' = nops + 1
    /\ UNCHANGED <<storage, cg, elems>>

\* Profile.dump_stats(storage_key), lines 534-540
DumpStats ==
    /\ nops < MaxOps
    /\ \E k \in StorageKeys :
        /\ storage' = [storage EXCEPT ![k] = [present |-> TRUE, text |-> __json__(self)]]
        /\ call' = Called("dump_stats", <<>>, k)
    /\ err' = "none"
    /\ nops' = nops + 1
    /\ UNCHANGED <<self, cg, elems>>

\* str(data): the report of the store (__str__, __repr__; lines 368-398)
Str ==
    /\ nops < MaxOps
    /\ LET r == __str__(self)
       IN  /\ self' = r.obj
           /\ err' = r.err
    /\ call' = Called("__str__", <<>>, "")
    /\ nops' = nops + 1
    /\ UNCHANGED <<storage, cg, elems>>

\* MethodElement("Top", profile, stats): the root of a treemap over self
NewMethodElement ==
    /\ nops < MaxOps
    /\ \E cumulated \in {0, self.duration} :
        LET r == MethodElementInit(
                    "Top", [ZeroProfile EXCEPT !.cumulated = cumulated,
                                               !.total = cumulated],
                    self, NoneChain, elems)
        IN  /\ elems' = r.elems
            /\ err' = r.err
    /\ call' = Called("MethodElement", <<>>, "Top")
    /\ nops' = nops + 1
    /\ UNCHANGED <<self, storage, cg>>

LoadData ==
    /\ nops < MaxOps
    /\ LET r == load_data(cg, self, elems)
       IN  /\ cg' = r.cg
           /\ elems' = r.elems
           /\ err' = r.err
    /\ call' = Called("load_data", <<>>, "")
    /\ nops' = nops + 1
    /\ UNCHANGED <<self, storage>>

ZoomIn ==
    /\ nops < MaxOps
    /\ \E func_name \in Funcs :
        LET r == zoom_in(cg, func_name, elems)
        IN  /\ cg' = r.cg
            /\ err' = r.err
            /\ call' = Called("zoom_in", <<>>, func_name)
    /\ nops' = nops + 1
    /\ UNCHANGED <<self, storage, elems>>

ZoomOut ==
    /\ nops < MaxOps
    /\ LET r == zoom_out(cg, elems)
       IN  /\ cg' = r.cg
           /\ err' = r.err
    /\ call' = Called("zoom_out", <<>>, "")
    /\ nops' = nops + 1
    /\ UNCHANGED <<self, storage, elems>>

\* a session on the store
Next ==
    \/ NewStats
    \/ Reload
    \/ Add
    \/ Sort
    \/ DumpStats
    \/ Str

Spec == Init /\ [][Next]_vars

\* a session on the treemap of the store, the store merged into on the way
NextTreemap ==
    \/ Add
    \/ NewMethodElement
    \/ LoadData
    \/ ZoomIn
    \/ ZoomOut

SpecTreemap == Init /\ [][NextTreemap]_vars

\* ---- loading into a store in place

\* serialised text without the schema keys of drop; without all of them it
\* stands for every text whose first lookup fails
Without(text, drop) == [k \in DOMAIN text \ drop |-> text[k]]

\* what a load is asked to drop from a well-formed text: nothing, one schema
\* key, or all of them
Drops == {{}} \cup {{k} : k \in Range(SchemaKeys)} \cup {Range(SchemaKeys)}

DropName(drop) ==
    IF drop = {} THEN ""
    ELSE IF drop = Range(SchemaKeys) THEN "*"
    ELSE CHOOSE k \in drop : TRUE

\* data.from_json(text) on a store that holds a profile already
FromJson ==
    /\ nops < MaxOps
    /\ \E text \in Texts, drop \in Drops :
        LET r == from_json(self, Without(text, drop))
        IN  /\ self' = r.obj
            /\ err' = r.err
            /\ call' = Called("from_json", <<text>>, DropName(drop))
    /\ nops' = nops + 1
    /\ UNCHANGED <<storage, cg, elems>>

\* a session that builds stores from recorded data and loads texts into them
NextLoad ==
    \/ NewStats
    \/ FromJson

SpecLoad == Init /\ [][NextLoad]_vars

\* ------------------------------------------------------------------ claims

HasEdge(obj, f, c) == Has(obj.callers, f) /\ Has(obj.callers.val[f], c)
EdgeOf(obj, f, c) == IF HasEdge(obj, f, c) THEN obj.callers.val[f].val[c] ELSE ZeroEdge
ValueOf(d, f) == ValueOrZero(d, f)

SameResult(a, b) == a.err = b.err /\ (a.err = "none" => a.val = b.val)

\* every query of the store answers alike on a and b
SameQueries(a, b) ==
    /\ profiled_methods(a) = profiled_methods(b)
    /\ \A n \in Funcs \cup {None}, c \in Chains \cup {NoneChain} :
          SameResult(method_profile(a, n, c), method_profile(b, n, c))
    /\ \A n \in Funcs :
          SameResult(method_profile_by_callchain(a, n), method_profile_by_callchain(b, n))
    /\ \A c \in Chains \cup {NoneChain} :
          SameResult(sub_calls(a, c), sub_calls(b, c))

\* C1: after dest.add(src), src a Stats store, every edge (f, c) of src has
\* each of its four fields in dest equal to dest's value before (zero if
\* absent) plus src's, also for an f dest already had callers for, and the
\* edges src does not mention are unchanged.
C1_MergeAddsEveryEdge ==
    [][(call'.op = "add" /\ call'.key = "" /\ Len(call'.srcs) = 1) =>
         \A f \in Funcs, c \in Chains :
            IF HasEdge(call'.srcs[1], f, c)
            THEN /\ HasEdge(self', f, c)
                 /\ EdgeOf(self', f, c) = EdgePlus(EdgeOf(self, f, c),
                                                   EdgeOf(call'.srcs[1], f, c))
            ELSE /\ HasEdge(self', f, c) <=> HasEdge(self, f, c)
                 /\ EdgeOf(self', f, c) = EdgeOf(self, f, c)]_vars

SrcSum(srcs, fld, f) == SumSeq([i \in DOMAIN srcs |-> ValueOf(srcs[i][fld], f)])

\* C2: merging stores into A, one add per store in either order or all in a
\* single add, leaves each function's function_totals,
\* function_cumulated_totals and function_counts equal to A's value plus the
\* sum of the merged stores' values (absent counting as zero): every add
\* raises the three maps by the sum over its sources.
C2_MergeSumsFunctionMaps ==
    [][(call'.op = "add" /\ call'.key = "") =>
         \A f \in Funcs :
            \A fld \in {"function_totals", "function_cumulated_totals", "function_counts"} :
                ValueOf(self'[fld], f) = ValueOf(self[fld], f) + SrcSum(call'.srcs, fld, f)]_vars

\* C3: method_profile(None) returns total = duration minus the sum of the
\* functions' self-times, cumulated = duration, counts = the sum of
\* function_counts and counts_nonrec = the sum of function_counts_nonrec.
C3_TopLevelProfile ==
    LET r == method_profile(self, None, NoneChain)
    IN  /\ r.err = "none"
        /\ r.val = [total         |-> self.duration - SumSeq(Values(self.function_totals)),
                    cumulated     |-> self.duration,
                    counts        |-> SumSeq(Values(self.function_counts)),
                    counts_nonrec |-> SumSeq(Values(self.function_counts_nonrec))]

\* C4: for every known function and every chain c, method_profile(name, c)
\* returns the edge's total, cumulated, count and count_norec as total,
\* cumulated, counts and counts_nonrec, and all zero, without error, when c
\* never called name.
C4_ProfileByChain ==
    \A name \in Range(profiled_methods(self)), c \in Chains :
        LET r == method_profile(self, name, c)
            e == EdgeOf(self, name, c)
        IN  /\ r.err = "none"
            /\ r.val = [total |-> e.total, cumulated |-> e.cumulated,
                        counts |-> e.count, counts_nonrec |-> e.count_norec]

\* C5: sub_calls(chain) returns exactly the profiled functions with an edge
\* under that chain; with chain unset, exactly those with an edge under some
\* chain of the store's top-level-location set.
C5_SubCalls ==
    /\ \A c \in Chains :
          LET r == sub_calls(self, c)
          IN  /\ r.err = "none"
              /\ r.val = {f \in Range(profiled_methods(self)) : HasEdge(self, f, c)}
    /\ LET r == sub_calls(self, NoneChain)
       IN  /\ r.err = "none"
           /\ r.val = {f \in Range(profiled_methods(self)) :
                         \E k \in self._top_level_call_locations : HasEdge(self, f, k)}

\* the quantity key sorts on, for function f, as <<f, numerator, denominator>>
Quantity(obj, key, f) ==
    CASE key = "ncalls"      -> <<f, obj.function_counts.val[f], 1>>
      [] key = "tottime"     -> <<f, obj.function_totals.val[f], 1>>
      [] key = "percall"     -> <<f, obj.function_totals.val[f], obj.function_counts.val[f]>>
      [] key = "cumtime"     -> <<f, obj.function_cumulated_totals.val[f], 1>>
      [] key = "var percall" -> <<f, obj.function_cumulated_totals.val[f],
                                     obj.function_counts_nonrec.val[f]>>

IsPermutation(seq, of) ==
    /\ Len(seq) = Len(of)
    /\ Range(seq) = Range(of)
    /\ \A i, j \in DOMAIN seq : seq[i] = seq[j] => i = j

\* the one ordering predicate of the numeric keys: no key's quantity rises
\* along the order (falls, were the store's _reverse_order set)
NumericOrdered(obj, key, seq) ==
    \A i \in 1..(Len(seq) - 1) :
        IF obj._reverse_order
        THEN ~ValLess(Quantity(obj, key, seq[i + 1]), Quantity(obj, key, seq[i]))
        ELSE ~ValLess(Quantity(obj, key, seq[i]), Quantity(obj, key, seq[i + 1]))

NameOrdered(seq) == \A i \in 1..(Len(seq) - 1) : StrLess(seq[i], seq[i + 1])

SortContract(obj, key) ==
    LET r == sort(obj, key)
    IN  /\ r.err = "none"
        /\ ~r.obj._sk.isNone
        /\ IsPermutation(r.obj._sk.keys, profiled_methods(obj))
        /\ IF key = "standard name" THEN NameOrdered(r.obj._sk.keys)
           ELSE NumericOrdered(obj, key, r.obj._sk.keys)

\* C6: after sort(key) with a numeric key the cached order is a permutation
\* of profiled_methods() whose adjacent pairs all satisfy one ordering
\* predicate on the key's quantity, the same direction for every numeric
\* key; after sort('standard name') it is ascending by function identity
\* whatever the reverse setting is.
C6_SortContract ==
    /\ call.op = "sort" =>
          /\ err = "none"
          /\ self._ordering = call.key
          /\ ~self._sk.isNone
          /\ IsPermutation(self._sk.keys, profiled_methods(self))
          /\ IF call.key = "standard name" THEN NameOrdered(self._sk.keys)
             ELSE NumericOrdered(self, call.key, self._sk.keys)
    /\ \A reverse \in BOOLEAN, key \in SortKeys :
          SortContract([self EXCEPT !._reverse_order = reverse], key)

\* a sort on a ratio key that had two functions of different ratio to order
C6_Witness ==
    /\ call.op = "sort"
    /\ call.key = "percall"
    /\ err = "none"
    /\ Len(self._sk.keys) = 2
    /\ ValLess(Quantity(self, "percall", self._sk.keys[2]),
               Quantity(self, "percall", self._sk.keys[1]))
    /\ ~ValLess(Quantity(self, "ncalls", self._sk.keys[2]),
                Quantity(self, "ncalls", self._sk.keys[1]))

RatMul(a, b) == <<a[1] * b[1], a[2] * b[2]>>
RatEq(a, b) == a[2] # 0 /\ b[2] # 0 /\ a[1] * b[2] = b[1] * a[2]
RatLeq(a, b) == a[2] # 0 /\ b[2] # 0 /\ ~RatGreater(a, b)

\* a rectangle is <<top, left, width, height>>
Area(r) == RatMul(r[3], r[4])
Inside(r, outer) ==
    /\ RatLeq(outer[1], r[1]) /\ RatLeq(outer[2], r[2])
    /\ RatLeq(RatAdd(r[1], r[4]), RatAdd(outer[1], outer[4]))
    /\ RatLeq(RatAdd(r[2], r[3]), RatAdd(outer[2], outer[3]))
Apart(r, q) ==
    \/ RatLeq(RatAdd(r[1], r[4]), q[1]) \/ RatLeq(RatAdd(q[1], q[4]), r[1])
    \/ RatLeq(RatAdd(r[2], r[3]), q[2]) \/ RatLeq(RatAdd(q[2], q[3]), r[2])

RECURSIVE RatSum(_)
RatSum(s) == IF s = <<>> THEN Rat(0) ELSE RatAdd(Head(s), RatSum(Tail(s)))

ChildrenOf(es, e) == [i \in DOMAIN e._children.keys |->
                         Element(es, e._children.val[e._children.keys[i]])]

\* the children of e tile e's initial free rectangle
Tiled(es, e) ==
    LET ch == ChildrenOf(es, e)
        share(c) == _relativize(c._profile_data, e._profile_data).cumulated
    IN  /\ \A i \in DOMAIN ch :
              /\ ch[i].rect # NoRect
              /\ Inside(ch[i].rect, FullRect)
              /\ RatEq(Area(ch[i].rect), RatMul(share(ch[i]), Area(FullRect)))
        /\ \A i, j \in DOMAIN ch : i # j => Apart(ch[i].rect, ch[j].rect)
        /\ RatEq(RatAdd(RatSum([i \in DOMAIN ch |-> Area(ch[i].rect)]), Area(e._free_rect)),
                 Area(FullRect))

\* C7: a node built for a store stands with all its children added: their
\* rectangles lie inside the node's initial free rectangle (0,0,100,100), do
\* not overlap, each has its cumulated share of that rectangle's area, and
\* the children's areas plus the remaining free rectangle's area equal the
\* initial free rectangle's area.
C7_TreemapTiling ==
    call.op = "MethodElement" =>
        /\ \E e \in elems : e._stack_hash = StackHash(call.key, NoneChain)
        /\ \A e \in elems : Tiled(elems, e)

AtRoot(c) ==
    /\ c._root # NoneChain
    /\ c._zoomed_element = c._root
    /\ c.mounted = {c._root}

\* C8: load_data leaves the controller at the root, the root's rendering
\* mounted; zoom_in(name) for a child of the zoomed node moves to that child;
\* zoom_out() moves to the zoomed node's parent when it has one and is a
\* no-op at the root; none of them changes a node's children or rectangle, so
\* zoom_in then zoom_out from the root ends at the root.
C8_NavigationRoundTrip ==
    [][/\ call'.op = "load_data" => AtRoot(cg')
       /\ call'.op = "zoom_in" =>
            /\ err' = "none"
            /\ elems' = elems
            /\ cg'._zoomed_element # NoneChain
            /\ IF Has(Element(elems, cg._zoomed_element)._children, call'.key)
               THEN cg'._zoomed_element =
                        Element(elems, cg._zoomed_element)._children.val[call'.key]
               ELSE cg'._zoomed_element = cg._zoomed_element
       /\ call'.op = "zoom_out" =>
            /\ err' = "none"
            /\ elems' = elems
            /\ cg'._zoomed_element # NoneChain
            /\ IF Element(elems, cg._zoomed_element)._parent # NoneChain
               THEN /\ cg'._zoomed_element = Element(elems, cg._zoomed_element)._parent
                    /\ cg'.mounted = {cg'._zoomed_element}
               ELSE cg' = cg]_vars

\* C9: the store Stats(S.__json__()) answers every profiled_methods,
\* method_profile and sub_calls query as S does, and its top-level-location
\* set is the one derived from the deserialised caller adjacency.
C9_JsonRoundTrip ==
    [][call'.op = "Stats(json)" =>
         /\ err' = "none"
         /\ SameQueries(self', self)
         /\ self'._top_level_call_locations = TopLevelOf(Values(self'.callers))]_vars

\* a store with two functions, merged into and then reloaded from its JSON
C9_Witness ==
    /\ call.op = "Stats(json)"
    /\ err = "none"
    /\ nops = MaxOps
    /\ Len(profiled_methods(self)) = 2
    /\ self._top_level_call_locations # {}
    /\ \E f \in Funcs : method_profile(self, f, TopChain).err = "none"
                        /\ method_profile(self, f, TopChain).val.total > 0

IsEmptyText(t) ==
    /\ t.duration = 0
    /\ t.function_totals.keys = <<>>
    /\ t.callers.keys = <<>>

\* C10: add of an empty store (zero duration, no functions, no edges) leaves
\* every result of profiled_methods, method_profile,
\* method_profile_by_callchain and sub_calls unchanged.
C10_MergeIdentity ==
    [][(/\ call'.op = "add"
        /\ call'.key = ""
        /\ \A i \in DOMAIN call'.srcs : IsEmptyText(call'.srcs[i])) =>
         /\ err' = "none"
         /\ SameQueries(self', self)]_vars

\* an empty store merged into a sorted store with functions and edges
C10_Witness ==
    /\ call.op = "add"
    /\ call.key = ""
    /\ err = "none"
    /\ \A i \in DOMAIN call.srcs : IsEmptyText(call.srcs[i])
    /\ profiled_methods(self) # <<>>
    /\ self.callers.keys # <<>>
    /\ ~self._sk.isNone

\* the row the report is to show for func: every time column is the named
\* quantity divided by nruns once and printed in seconds
ExpectedRow(obj, func) ==
    LET count  == obj.function_counts.val[func]
        nonrec == obj.function_counts_nonrec.val[func]
        total  == obj.function_totals.val[func]
        cumul  == obj.function_cumulated_totals.val[func]
        nruns  == obj.nruns
    IN  [func       |-> func,
         ncalls     |-> Format(count, nruns),
         recursive  |-> count > nonrec,
         nonrec     |-> IF count > nonrec THEN Format(nonrec, nruns) ELSE {},
         tottime    |-> Format(total, nruns),
         percall    |-> Format(total, count * nruns),
         cumtime    |-> Format(cumul, nruns),
         varpercall |-> Format(cumul, nonrec * nruns)]

\* a printed cell shows a quantity when one of the quantity's printed forms
\* is the cell's
Shows(cell, expected) == cell = expected \/ cell \cap expected # {}

SameRow(row, expected) ==
    /\ row.func = expected.func
    /\ row.recursive = expected.recursive
    /\ \A col \in {"ncalls", "nonrec", "tottime", "percall", "cumtime", "varpercall"} :
          Shows(row[col], expected[col])

\* C11: the report has one row per function of the cached order, in that
\* order; a row shows ncalls = count/nruns, followed by count_nonrec/nruns
\* exactly when count > count_nonrec, and tottime (total), percall
\* (total/count), cumtime (cumulated) and var percall
\* (cumulated/count_nonrec), each divided by nruns once and by 1000,
\* whatever nruns >= 1 is.
C11_ReportRows ==
    (call.op = "__str__" /\ self.nruns >= 1) =>
        LET r == __str__(self)
        IN  /\ err = "none"
            /\ r.err = "none"
            /\ Len(r.val.rows) = Len(self._sk.keys)
            /\ \A i \in DOMAIN r.val.rows :
                  SameRow(r.val.rows[i], ExpectedRow(self, self._sk.keys[i]))

\* the cached order of obj holds every function of obj, ordered by key
OrderedBy(obj, key) ==
    /\ ~obj._sk.isNone
    /\ IsPermutation(obj._sk.keys, profiled_methods(obj))
    /\ IF key = "standard name" THEN NameOrdered(obj._sk.keys)
       ELSE NumericOrdered(obj, key, obj._sk.keys)

\* C12: when a sort order was requested on the store (an order is cached
\* under the key _ordering) and add then merges its sources and returns, the
\* store's ordering key is still that key and the cached order holds every
\* function of the merged store, ordered by that key's quantity over the
\* merged values.
C12_MergeKeepsSortKey ==
    [][(/\ call'.op = "add"
        /\ call'.key = ""
        /\ err' = "none"
        /\ ~self._sk.isNone) =>
         /\ self'._ordering = self._ordering
         /\ OrderedBy(self', self._ordering)]_vars

\* the fields of a store that a load writes
LoadedFields ==
    Range(SchemaKeys) \cup {"_top_level_call_locations", "_data"}

\* C13: from_json of a text that lacks a required schema key fails with an
\* error and installs nothing: nruns, line_counts, duration, the four
\* function maps, callers, the top-level-location set and the raw-data
\* reference are what they were before the call.
C13_LoadAtomic ==
    [][(call'.op = "from_json" /\ call'.key # "") =>
         /\ err' # "none"
         /\ \A fld \in LoadedFields : self'[fld] = self[fld]]_vars

====
